---- MODULE Spec2Model ----
(***************************************************************************)
(* Stage hand-off contract of the goserv pipeline examples                 *)
(* (cicd_dagger_contract/python): build, unit_test, deliver, deploy,       *)
(* validate and integration_test, and the JSON context files they pass.    *)
(*                                                                         *)
(* A stage call is one action.  The engine's own operations (container     *)
(* execution, reading a file's contents, creating a file) are taken to     *)
(* succeed; what a call does with its arguments is modelled from the code. *)
(*                                                                         *)
(* Python values are tagged tuples:                                        *)
(*   <<"None">>  <<"True">>  <<"False">>  <<"nan">>                        *)
(*   <<"str", s>>  <<"num", literal>>                                      *)
(*   <<"list", <<v1, ..., vn>> >>                                          *)
(*   <<"dict", << <<k1, v1>>, ..., <<kn, vn>> >> >>   (insertion order)    *)
(* A JSON text is the sequence of its tokens (whitespace dropped):         *)
(*   <<"{">> <<"}">> <<"[">> <<"]">> <<":">> <<",">>                       *)
(*   <<"str", s>> <<"num", literal>> <<"null">> <<"true">> <<"false">>     *)
(*   <<"NaN">>, and <<"?">> for text no JSON token starts with.            *)
(***************************************************************************)
EXTENDS Integers, Sequences, FiniteSets, TLC

(* call:     the latest stage call - stage, args, outcome ("Completed",   *)
(*           "Skipped", "Failed"), error (the exception raised), result   *)
(*           (the returned string), ret (the returned file), execs (the   *)
(*           containers run during the call)                              *)
(* handoff:  the artifact in hand, <<>> or <<file>>: the file the latest  *)
(*           producing stage returned, which later calls may be given     *)
(* producer: the stage that returned it                                   *)
VARIABLES call, handoff, producer

vars == <<call, handoff, producer>>

(* Largest reading of the wall clock a call can draw. *)
MaxClock == 1

-----------------------------------------------------------------------------
(* Python values *)

None == <<"None">>

PyTrue == <<"True">>

PyFalse == <<"False">>

Str(s) == <<"str", s>>

Num(s) == <<"num", s>>

List(elems) == <<"list", elems>>

Dict(items) == <<"dict", items>>

PyBool(b) == IF b THEN PyTrue ELSE PyFalse

IsDict(v) == v[1] = "dict"

RECURSIVE DictIndex(_, _, _)
(* Position of key k among the items from position i on, 0 when absent. *)
DictIndex(items, k, i) ==
    IF i > Len(items) THEN 0
    ELSE IF items[i][1] = k THEN i
    ELSE DictIndex(items, k, i + 1)

(* d[k] = v on a dict's items: a key already present keeps its place. *)
DictSet(items, k, v) ==
    LET i == DictIndex(items, k, 1)
    IN  IF i = 0 THEN Append(items, <<k, v>>)
        ELSE [items EXCEPT ![i] = <<k, v>>]

(* dict.get(k): the value, None when the key is absent. *)
DictGet(d, k) ==
    LET i == DictIndex(d[2], k, 1)
    IN  IF i = 0 THEN None ELSE d[2][i][2]

DictHas(d, k) == DictIndex(d[2], k, 1) # 0

-----------------------------------------------------------------------------
(* json.loads: a recursive-descent parse of the token sequence *)

ParseFail == [ok |-> FALSE, val |-> None, next |-> 0]

TokAt(toks, i) == IF i >= 1 /\ i <= Len(toks) THEN toks[i] ELSE <<"EOF">>

RECURSIVE ParseValue(_, _)
RECURSIVE ParseMembers(_, _, _)
RECURSIVE ParseElements(_, _, _)

(* After "{" or ",": a string key, ":", a value, then "," or "}". *)
(* A repeated key overwrites the earlier value.                   *)
ParseMembers(toks, i, items) ==
    IF TokAt(toks, i)[1] # "str" \/ TokAt(toks, i + 1) # <<":">> THEN ParseFail
    ELSE LET r == ParseValue(toks, i + 2)
         IN  IF ~r.ok THEN ParseFail
             ELSE LET more == DictSet(items, toks[i][2], r.val)
                  IN  IF TokAt(toks, r.next) = <<",">>
                        THEN ParseMembers(toks, r.next + 1, more)
                      ELSE IF TokAt(toks, r.next) = <<"}">>
                        THEN [ok |-> TRUE, val |-> Dict(more), next |-> r.next + 1]
                      ELSE ParseFail

(* After "[" or ",": a value, then "," or "]". *)
ParseElements(toks, i, elems) ==
    LET r == ParseValue(toks, i)
    IN  IF ~r.ok THEN ParseFail
        ELSE LET more == Append(elems, r.val)
             IN  IF TokAt(toks, r.next) = <<",">>
                   THEN ParseElements(toks, r.next + 1, more)
                 ELSE IF TokAt(toks, r.next) = <<"]">>
                   THEN [ok |-> TRUE, val |-> List(more), next |-> r.next + 1]
                 ELSE ParseFail

ParseValue(toks, i) ==
    LET t == TokAt(toks, i)
    IN  CASE t = <<"{">> ->
               IF TokAt(toks, i + 1) = <<"}">>
                 THEN [ok |-> TRUE, val |-> Dict(<<>>), next |-> i + 2]
                 ELSE ParseMembers(toks, i + 1, <<>>)
          [] t = <<"[">> ->
               IF TokAt(toks, i + 1) = <<"]">>
                 THEN [ok |-> TRUE, val |-> List(<<>>), next |-> i + 2]
                 ELSE ParseElements(toks, i + 1, <<>>)
          [] t[1] = "str" -> [ok |-> TRUE, val |-> Str(t[2]), next |-> i + 1]
          [] t[1] = "num" -> [ok |-> TRUE, val |-> Num(t[2]), next |-> i + 1]
          [] t = <<"null">> -> [ok |-> TRUE, val |-> None, next |-> i + 1]
          [] t = <<"true">> -> [ok |-> TRUE, val |-> PyTrue, next |-> i + 1]
          [] t = <<"false">> -> [ok |-> TRUE, val |-> PyFalse, next |-> i + 1]
          [] t = <<"NaN">> -> [ok |-> TRUE, val |-> <<"nan">>, next |-> i + 1]
          [] OTHER -> ParseFail

(* json.loads(text): the value when the whole text is one JSON value, *)
(* else JSONDecodeError (ok = FALSE).                                 *)
json_loads(text) ==
    LET r == ParseValue(text, 1)
    IN  IF r.ok /\ r.next = Len(text) + 1
          THEN [ok |-> TRUE, val |-> r.val]
          ELSE [ok |-> FALSE, val |-> None]

-----------------------------------------------------------------------------
(* json.dumps *)

RECURSIVE json_dumps(_)
RECURSIVE DumpItems(_, _)
RECURSIVE DumpElems(_, _)

DumpItems(items, i) ==
    IF i > Len(items) THEN <<>>
    ELSE (IF i > 1 THEN << <<",">> >> ELSE <<>>)
         \o << Str(items[i][1]), <<":">> >>
         \o json_dumps(items[i][2])
         \o DumpItems(items, i + 1)

DumpElems(elems, i) ==
    IF i > Len(elems) THEN <<>>
    ELSE (IF i > 1 THEN << <<",">> >> ELSE <<>>)
         \o json_dumps(elems[i])
         \o DumpElems(elems, i + 1)

json_dumps(v) ==
    CASE v[1] = "dict" -> << <<"{">> >> \o DumpItems(v[2], 1) \o << <<"}">> >>
      [] v[1] = "list" -> << <<"[">> >> \o DumpElems(v[2], 1) \o << <<"]">> >>
      [] v = None -> << <<"null">> >>
      [] v = PyTrue -> << <<"true">> >>
      [] v = PyFalse -> << <<"false">> >>
      [] v = <<"nan">> -> << <<"NaN">> >>
      [] OTHER -> << v >>

-----------------------------------------------------------------------------
(* Engine objects: files, containers, the clock *)

(* A dagger.File: its name and its contents as a JSON token text.  An *)
(* Optional[dagger.File] argument is <<>> (None) or <<file>>.         *)
File(name, contents) == [name |-> name, contents |-> contents]

(* Mutant of Provided: the argument is read whether or not it was passed. *)
Provided_Always(f) == TRUE

(* "if deployment_context:" - an argument that was passed is truthy. *)
Provided(f) == f # <<>>

(* await f.contents(); calling it on None raises AttributeError. *)
ReadContents(f) ==
    IF f = <<>> THEN [exc |-> "AttributeError", text |-> <<>>]
    ELSE [exc |-> "", text |-> f[1].contents]

(* Mutant of Get: a value that is not a dict yields None, no error. *)
Get_Lenient(obj, key) ==
    IF IsDict(obj) THEN [exc |-> "", val |-> DictGet(obj, key)]
    ELSE [exc |-> "", val |-> None]

(* context.get(key): only a dict has .get. *)
Get(obj, key) ==
    IF IsDict(obj) THEN [exc |-> "", val |-> DictGet(obj, key)]
    ELSE [exc |-> "AttributeError", val |-> None]

(* dag.container().from_("alpine:latest").with_exec(args) *)
Exec(args) == [image |-> "alpine:latest", args |-> args]

(* .stdout() of an echo: its argument and a newline. *)
Stdout(exec) == exec.args[2] \o "\n"

Clock == 0 .. MaxClock

(* datetime.now().isoformat() at clock reading t. *)
IsoFormat(t) == "2026-11-01T12:00:0" \o ToString(t)

RECURSIVE PyRepr(_)
RECURSIVE ReprItems(_, _)
RECURSIVE ReprElems(_, _)

ReprItems(items, i) ==
    IF i > Len(items) THEN ""
    ELSE (IF i > 1 THEN ", " ELSE "")
         \o "'" \o items[i][1] \o "': " \o PyRepr(items[i][2])
         \o ReprItems(items, i + 1)

ReprElems(elems, i) ==
    IF i > Len(elems) THEN ""
    ELSE (IF i > 1 THEN ", " ELSE "") \o PyRepr(elems[i]) \o ReprElems(elems, i + 1)

PyRepr(v) ==
    CASE v[1] = "dict" -> "{" \o ReprItems(v[2], 1) \o "}"
      [] v[1] = "list" -> "[" \o ReprElems(v[2], 1) \o "]"
      [] v[1] = "str" -> "'" \o v[2] \o "'"
      [] v[1] = "num" -> v[2]
      [] OTHER -> v[1]

(* "{value}" in an f-string: str(value). *)
PyStr(v) == IF v[1] = "str" THEN v[2] ELSE PyRepr(v)

(* dag.directory().with_new_file(name, text).file(name) *)
NewFile(name, text) == <<File(name, text)>>

-----------------------------------------------------------------------------
(* Outcomes of a stage call *)

Completed(result, ret, execs) ==
    [outcome |-> "Completed", error |-> "", result |-> result, ret |-> ret,
     execs |-> execs]

Raised(error) ==
    [outcome |-> "Failed", error |-> error, result |-> "", ret |-> <<>>,
     execs |-> <<>>]

SkipMessage == "Skipping tests: deployment validation failed"

(* Mutant of Skipped: the early exit raises instead of returning. *)
Skipped_Raises ==
    [outcome |-> "Failed", error |-> "RuntimeError", result |-> "", ret |-> <<>>,
     execs |-> <<>>]

(* return "Skipping tests: ..." before any container is run. *)
Skipped ==
    [outcome |-> "Skipped", error |-> "", result |-> SkipMessage, ret |-> <<>>,
     execs |-> <<>>]

-----------------------------------------------------------------------------
(* build *)

BuildExec == Exec(<<"echo", "This is the Build function">>)

(* /etc/hostname of the alpine container: plain text, not JSON. *)
BuildFile == <<File("hostname", << <<"?">> >>)>>

build(release_candidate) == Completed("", BuildFile, <<BuildExec>>)

-----------------------------------------------------------------------------
(* unit_test *)

UnitTestExec == Exec(<<"echo", "this is the UnitTest function">>)

unit_test(build_artifact) == Completed(Stdout(UnitTestExec), <<>>, <<UnitTestExec>>)

-----------------------------------------------------------------------------
(* deliver *)

(* Mutant of DeliveryContextDict: the timestamp entry is left out. *)
DeliveryContextDict_NoTimestamp(container_repository, helm_repository, release_candidate, t) ==
    Dict(<< <<"imageReference", Str(PyStr(container_repository) \o "/goserv:1.0.0")>>,
            <<"chartReference", Str(PyStr(helm_repository) \o "/goserv:0.1.0")>>,
            <<"containerRepository", container_repository>>,
            <<"helmRepository", helm_repository>>,
            <<"releaseCandidate", PyBool(release_candidate)>> >>)


DeliveryContextDict(container_repository, helm_repository, release_candidate, t) ==
    Dict(<< <<"timestamp", Str(IsoFormat(t))>>,
            <<"imageReference", Str(PyStr(container_repository) \o "/goserv:1.0.0")>>,
            <<"chartReference", Str(PyStr(helm_repository) \o "/goserv:0.1.0")>>,
            <<"containerRepository", container_repository>>,
            <<"helmRepository", helm_repository>>,
            <<"releaseCandidate", PyBool(release_candidate)>> >>)

deliver(container_repository, helm_repository, build_artifact, release_candidate, t) ==
    LET delivery_context ==
            DeliveryContextDict(container_repository, helm_repository,
                                release_candidate, t)
        context_json == json_dumps(delivery_context)
    IN  Completed("", NewFile("delivery-context.json", context_json), <<>>)

-----------------------------------------------------------------------------
(* deploy *)

(* Names bound at module level of deploy.example.py. *)
DeployGlobals ==
    {"json", "datetime", "dagger", "dag", "function", "object_type", "Optional",
     "Deploy"}

(* The local names of a deploy call: its parameters. *)
DeployLocals(kubeconfig, awsconfig, helm_repository, container_repository, release_candidate) ==
    [self |-> None, source |-> None, kubeconfig |-> kubeconfig,
     awsconfig |-> awsconfig, helm_repository |-> helm_repository,
     container_repository |-> container_repository,
     release_candidate |-> PyBool(release_candidate)]

DeploymentContextDict(image_ref, t) ==
    Dict(<< <<"timestamp", Str(IsoFormat(t))>>,
            <<"endpoint", Str("http://goserv.default.svc.cluster.local:8080")>>,
            <<"releaseName", Str("goserv")>>,
            <<"namespace", Str("default")>>,
            <<"chartVersion", Str("0.1.0")>>,
            <<"imageReference", image_ref>> >>)

(* The dict display reads the name image_ref, which nothing binds: *)
(* NameError, raised before any file is created.                   *)
deploy(kubeconfig, awsconfig, helm_repository, container_repository, release_candidate, t) ==
    LET locals == DeployLocals(kubeconfig, awsconfig, helm_repository,
                               container_repository, release_candidate)
    IN  IF "image_ref" \in DOMAIN locals
          THEN Completed("",
                   NewFile("deployment-context.json",
                           json_dumps(DeploymentContextDict(locals["image_ref"], t))),
                   <<>>)
        ELSE IF "image_ref" \in DeployGlobals
          THEN Completed("",
                   NewFile("deployment-context.json",
                           json_dumps(DeploymentContextDict(None, t))),
                   <<>>)
        ELSE Raised("NameError")

-----------------------------------------------------------------------------
(* validate *)

(* Lines 30-36: endpoint and release_name out of the deployment context. *)
ExtractDeployment(deployment_context) ==
    IF ~Provided(deployment_context)
      THEN [exc |-> "", endpoint |-> None, release_name |-> None]
    ELSE LET c == ReadContents(deployment_context)
             p == json_loads(c.text)
             e == Get(p.val, "endpoint")
             r == Get(p.val, "releaseName")
         IN  IF c.exc # "" THEN [exc |-> c.exc, endpoint |-> None, release_name |-> None]
             ELSE IF ~p.ok
               THEN [exc |-> "JSONDecodeError", endpoint |-> None, release_name |-> None]
             ELSE IF e.exc # ""
               THEN [exc |-> e.exc, endpoint |-> None, release_name |-> None]
             ELSE IF r.exc # ""
               THEN [exc |-> r.exc, endpoint |-> None, release_name |-> None]
             ELSE [exc |-> "", endpoint |-> e.val, release_name |-> r.val]

(* Mutant of ValidationStatus: another spelling of the status. *)
ValidationStatus_Ok == Str("ok")


ValidationStatus == Str("healthy")

(* Mutant of ValidationContextDict: the two copied values change places. *)
ValidationContextDict_Swapped(release_name, endpoint, t) ==
    Dict(<< <<"timestamp", Str(IsoFormat(t))>>,
            <<"releaseName", endpoint>>,
            <<"endpoint", release_name>>,
            <<"status", ValidationStatus>>,
            <<"healthChecks", List(<<Str("pod-ready"), Str("service-available")>>)>>,
            <<"readinessChecks", List(<<Str("http-200"), Str("metrics-available")>>)>> >>)


ValidationContextDict(release_name, endpoint, t) ==
    Dict(<< <<"timestamp", Str(IsoFormat(t))>>,
            <<"releaseName", release_name>>,
            <<"endpoint", endpoint>>,
            <<"status", ValidationStatus>>,
            <<"healthChecks", List(<<Str("pod-ready"), Str("service-available")>>)>>,
            <<"readinessChecks", List(<<Str("http-200"), Str("metrics-available")>>)>> >>)

validate(release_candidate, deployment_context, t) ==
    LET d == ExtractDeployment(deployment_context)
        validation_context == ValidationContextDict(d.release_name, d.endpoint, t)
        context_json == json_dumps(validation_context)
    IN  IF d.exc # "" THEN Raised(d.exc)
        ELSE Completed("", NewFile("validation-context.json", context_json), <<>>)

-----------------------------------------------------------------------------
(* integration_test *)

(* Lines 54-58: target_url out of the deployment context. *)
TargetUrl(deployment_context) ==
    IF ~Provided(deployment_context) THEN [exc |-> "", val |-> None]
    ELSE LET c == ReadContents(deployment_context)
             p == json_loads(c.text)
         IN  IF c.exc # "" THEN [exc |-> c.exc, val |-> None]
             ELSE IF ~p.ok THEN [exc |-> "JSONDecodeError", val |-> None]
             ELSE Get(p.val, "endpoint")

(* Mutant of ValidationFailed: only the status "unhealthy" counts as failed. *)
ValidationFailed_OnlyUnhealthy(status) == status = Str("unhealthy")

(* Mutant of ValidationFailed: any validation context counts as failed. *)
ValidationFailed_Always(status) == TRUE

(* Line 64: val_context.get("status") != "healthy" *)
ValidationFailed(status) == status # Str("healthy")

(* Lines 61-65: whether the validation context makes the call return early. *)
CheckValidation(validation_context) ==
    IF ~Provided(validation_context) THEN [exc |-> "", skip |-> FALSE]
    ELSE LET c == ReadContents(validation_context)
             p == json_loads(c.text)
             s == Get(p.val, "status")
         IN  IF c.exc # "" THEN [exc |-> c.exc, skip |-> FALSE]
             ELSE IF ~p.ok THEN [exc |-> "JSONDecodeError", skip |-> FALSE]
             ELSE IF s.exc # "" THEN [exc |-> s.exc, skip |-> FALSE]
             ELSE [exc |-> "", skip |-> ValidationFailed(s.val)]

(* Lines 68-79: the two echo containers; the second one's output is returned. *)
IntegrationExecs(target_url) ==
    << Exec(<<"echo", "Running integration tests against " \o PyStr(target_url)>>),
       Exec(<<"echo", "this is the IntegrationTest function">>) >>

integration_test(deployment_context, validation_context) ==
    LET u == TargetUrl(deployment_context)
        v == CheckValidation(validation_context)
        execs == IntegrationExecs(u.val)
    IN  IF u.exc # "" THEN Raised(u.exc)
        ELSE IF v.exc # "" THEN Raised(v.exc)
        ELSE IF v.skip THEN Skipped
        ELSE Completed(Stdout(execs[2]), <<>>, execs)

-----------------------------------------------------------------------------
(* Context files an orchestrator may hand to a stage *)

LB == <<"{">>

RB == <<"}">>

LK == <<"[">>

RK == <<"]">>

CO == <<":">>

CM == <<",">>

(* Texts passed as deployment_context: four JSON objects, then texts that *)
(* are not JSON (empty, truncated) or not an object.                      *)
DeploymentTexts ==
    { <<LB, Str("endpoint"), CO, Str("http://svc:8080"), CM,
        Str("releaseName"), CO, Str("goserv"), RB>>,
      <<LB, RB>>,
      <<LB, Str("endpoint"), CO, Str("http://a"), CM,
        Str("endpoint"), CO, Str("http://svc:8080"), RB>>,
      <<LB, Str("releaseName"), CO, Num("8080"), CM,
        Str("extra"), CO, LK, <<"null">>, CM, LB, Str("n"), CO, <<"true">>, RB, RK,
        RB>>,
      <<>>,
      <<LB, Str("endpoint"), CO, Str("http://svc:8080")>>,
      <<LK, Str("http://svc:8080"), RK>>,
      <<Str("http://svc:8080")>>,
      << <<"null">> >> }

(* Texts passed as validation_context: five JSON objects, then texts that *)
(* are not JSON (a missing colon) or not an object.                       *)
ValidationTexts ==
    { <<LB, Str("status"), CO, Str("healthy"), RB>>,
      <<LB, Str("status"), CO, Str("unhealthy"), RB>>,
      <<LB, RB>>,
      <<LB, Str("status"), CO, Str("Healthy"), CM, Str("endpoint"), CO, Str("x"), RB>>,
      <<LB, Str("status"), CO, Str("unhealthy"), CM,
        Str("status"), CO, Str("healthy"), RB>>,
      <<LB, Str("status"), Str("healthy"), RB>>,
      <<LK, Str("healthy"), RK>>,
      <<Str("healthy")>>,
      <<Num("42")>> }

(* An optional file argument: not passed, a file supplied from outside the *)
(* run, or the artifact in hand.                                            *)
FileArgs(name, texts) ==
    {<<>>} \cup {<<File(name, x)>> : x \in texts} \cup {handoff}

DeploymentArgs == FileArgs("deployment-context.json", DeploymentTexts)

ValidationArgs == FileArgs("validation-context.json", ValidationTexts)

BuildArgs == {<<>>, handoff}

(* container_repository and helm_repository: the defaults, or a registry *)
(* of the caller's.                                                      *)
Registries ==
    { [container |-> Str("ttl.sh"), helm |-> Str("oci://ttl.sh")],
      [container |-> Str("ghcr.io/acme"), helm |-> Str("oci://ghcr.io/acme")] }

-----------------------------------------------------------------------------
(* The run: the latest stage call and the artifact in hand *)

NotStarted ==
    [stage |-> "", args |-> <<>>, outcome |-> "NotStarted", error |-> "",
     result |-> "", ret |-> <<>>, execs |-> <<>>]

Init == call = NotStarted /\ handoff = <<>> /\ producer = ""

(* The record of a call: its arguments and what came of it. *)
CallOf(stage, args, o) == [stage |-> stage, args |-> args] @@ o

(* A returned file becomes the artifact in hand. *)
InHand(c) == IF c.ret # <<>> THEN c.ret ELSE handoff

(* ... and the stage that returned it, its producer. *)
ProducerOf(c) == IF c.ret # <<>> THEN c.stage ELSE producer

Build ==
    \E rc \in BOOLEAN :
        LET o == build(rc)
        IN  /\ call' = CallOf("build", [release_candidate |-> rc], o)
            /\ handoff' = InHand(call')
            /\ producer' = ProducerOf(call')

UnitTest ==
    \E ba \in BuildArgs :
        LET o == unit_test(ba)
        IN  /\ call' = CallOf("unit_test", [build_artifact |-> ba], o)
            /\ handoff' = InHand(call')
            /\ producer' = ProducerOf(call')

Deliver ==
    \E reg \in Registries, ba \in BuildArgs, rc \in BOOLEAN, t \in Clock :
        LET o == deliver(reg.container, reg.helm, ba, rc, t)
        IN  /\ call' = CallOf("deliver",
                           [container_repository |-> reg.container,
                            helm_repository |-> reg.helm, build_artifact |-> ba,
                            release_candidate |-> rc, clock |-> t], o)
            /\ handoff' = InHand(call')
            /\ producer' = ProducerOf(call')

Deploy ==
    \E kc \in {None, Str("kubeconfig")}, ac \in {None, Str("awsconfig")},
       reg \in Registries, rc \in BOOLEAN, t \in Clock :
        LET o == deploy(kc, ac, reg.helm, reg.container, rc, t)
        IN  /\ call' = CallOf("deploy",
                           [kubeconfig |-> kc, awsconfig |-> ac,
                            helm_repository |-> reg.helm,
                            container_repository |-> reg.container,
                            release_candidate |-> rc, clock |-> t], o)
            /\ handoff' = InHand(call')
            /\ producer' = ProducerOf(call')

Validate ==
    \E rc \in BOOLEAN, dc \in DeploymentArgs, t \in Clock :
        LET o == validate(rc, dc, t)
        IN  /\ call' = CallOf("validate",
                           [release_candidate |-> rc, deployment_context |-> dc,
                            clock |-> t], o)
            /\ handoff' = InHand(call')
            /\ producer' = ProducerOf(call')

IntegrationTest ==
    \E dc \in DeploymentArgs, vc \in ValidationArgs :
        LET o == integration_test(dc, vc)
        IN  /\ call' = CallOf("integration_test",
                           [deployment_context |-> dc, validation_context |-> vc],
                           o)
            /\ handoff' = InHand(call')
            /\ producer' = ProducerOf(call')

Next ==
    \/ Build
    \/ UnitTest
    \/ Deliver
    \/ Deploy
    \/ Validate
    \/ IntegrationTest

Spec == Init /\ [][Next]_vars
-----------------------------------------------------------------------------
(* Reading a file the way a consuming stage does *)

Parsed(f) == json_loads(f[1].contents)

(* The file was passed and json.loads gives a dict for it. *)
IsObjectFile(f) == f # <<>> /\ Parsed(f).ok /\ IsDict(Parsed(f).val)

(* The file was passed and is not JSON, or is JSON but not an object. *)
IsMalformedFile(f) == f # <<>> /\ ~IsObjectFile(f)

Field(f, key) == DictGet(Parsed(f).val, key)

HasField(f, key) == DictHas(Parsed(f).val, key)

AbsentOrObject(f) == f = <<>> \/ IsObjectFile(f)

(* A non-empty JSON array. *)
NonEmptyList(v) == v[1] = "list" /\ Len(v[2]) > 0

-----------------------------------------------------------------------------
(* C1: integration_test, given a validation context that is a JSON object  *)
(* whose "status" is missing or anything but "healthy", and a deployment    *)
(* context that is absent or a JSON object, returns exactly the skip        *)
(* message and runs no container.                                           *)
C1_SkipOnUnhealthy ==
    ( /\ call.stage = "integration_test"
      /\ IsObjectFile(call.args.validation_context)
      /\ Field(call.args.validation_context, "status") # Str("healthy")
      /\ AbsentOrObject(call.args.deployment_context) )
    => ( /\ call.result = "Skipping tests: deployment validation failed"
         /\ call.execs = <<>> )

(* Reached: a validation context with no "status" key at all, next to a *)
(* deployment context that is an object, and the skip message returned. *)
C1_Witness ==
    /\ call.stage = "integration_test"
    /\ IsObjectFile(call.args.validation_context)
    /\ ~HasField(call.args.validation_context, "status")
    /\ IsObjectFile(call.args.deployment_context)
    /\ call.result = "Skipping tests: deployment validation failed"
    /\ call.execs = <<>>

-----------------------------------------------------------------------------
(* C3: validate writes "endpoint" and "releaseName" equal to the values of  *)
(* those keys in the deployment context it was given (a JSON object), and   *)
(* null for a key that is missing or when no deployment context is given.   *)
C3_Propagation ==
    ( /\ call.stage = "validate"
      /\ AbsentOrObject(call.args.deployment_context) )
    => ( /\ call.outcome = "Completed"
         /\ IsObjectFile(call.ret)
         /\ \A key \in {"endpoint", "releaseName"} :
              /\ HasField(call.ret, key)
              /\ Field(call.ret, key) =
                   IF call.args.deployment_context # <<>>
                        /\ HasField(call.args.deployment_context, key)
                     THEN Field(call.args.deployment_context, key)
                     ELSE None )

(* Reached: the deployment context of the propagation law, copied. *)
C3_Witness ==
    /\ call.stage = "validate"
    /\ IsObjectFile(call.args.deployment_context)
    /\ Field(call.args.deployment_context, "endpoint") = Str("http://svc:8080")
    /\ Field(call.args.deployment_context, "releaseName") = Str("goserv")
    /\ call.outcome = "Completed"
    /\ Field(call.ret, "endpoint") = Str("http://svc:8080")
    /\ Field(call.ret, "releaseName") = Str("goserv")

-----------------------------------------------------------------------------
(* C6: a missing optional upstream artifact is never fatal: validate        *)
(* without deployment_context completes and emits a validation context with *)
(* endpoint and releaseName null, deliver without build_artifact completes  *)
(* and emits a delivery context, and integration_test with neither context  *)
(* runs its two test containers and returns the output.                     *)
C6_MissingOptionalNotFatal ==
    /\ ( call.stage = "validate" /\ call.args.deployment_context = <<>> )
       => ( /\ call.outcome = "Completed"
            /\ Len(call.ret) = 1
            /\ call.ret[1].name = "validation-context.json"
            /\ IsObjectFile(call.ret)
            /\ Field(call.ret, "endpoint") = None
            /\ Field(call.ret, "releaseName") = None )
    /\ ( call.stage = "deliver" /\ call.args.build_artifact = <<>> )
       => ( /\ call.outcome = "Completed"
            /\ Len(call.ret) = 1
            /\ call.ret[1].name = "delivery-context.json"
            /\ IsObjectFile(call.ret) )
    /\ ( /\ call.stage = "integration_test"
         /\ call.args.deployment_context = <<>>
         /\ call.args.validation_context = <<>> )
       => ( /\ call.outcome = "Completed"
            /\ Len(call.execs) = 2
            /\ call.result = "this is the IntegrationTest function\n" )

(* Reached: validate run with no deployment context, its context emitted. *)
C6_Witness ==
    /\ call.stage = "validate"
    /\ call.args.deployment_context = <<>>
    /\ call.outcome = "Completed"
    /\ call.ret # <<>>
    /\ HasField(call.ret, "endpoint")
    /\ Field(call.ret, "endpoint") = None

-----------------------------------------------------------------------------
(* C8: every context a stage emits (delivery, deployment, validation) is a *)
(* JSON object with a "timestamp" holding the clock reading of that call.  *)
C8_TimestampAlways ==
    ( /\ call.stage \in {"deliver", "deploy", "validate"}
      /\ call.ret # <<>> )
    => ( /\ IsObjectFile(call.ret)
         /\ HasField(call.ret, "timestamp")
         /\ Field(call.ret, "timestamp") = Str(IsoFormat(call.args.clock)) )

(* Reached: a delivery context emitted at the later clock reading. *)
C8_Witness ==
    /\ call.stage = "deliver"
    /\ call.ret # <<>>
    /\ call.args.clock = 1
    /\ Field(call.ret, "timestamp") = Str("2026-11-01T12:00:01")

-----------------------------------------------------------------------------
(* C10: the context validate emits has status "healthy" and non-empty      *)
(* healthChecks and readinessChecks, whatever it was given; and            *)
(* integration_test handed that artifact as validation_context never       *)
(* returns the skip message.                                               *)
C10_ValidateAlwaysHealthy ==
    /\ ( call.stage = "validate" /\ call.ret # <<>> )
       => ( /\ IsObjectFile(call.ret)
            /\ Field(call.ret, "status") = Str("healthy")
            /\ NonEmptyList(Field(call.ret, "healthChecks"))
            /\ NonEmptyList(Field(call.ret, "readinessChecks")) )
    /\ ( /\ call.stage = "integration_test"
         /\ producer = "validate"
         /\ call.args.validation_context = handoff )
       => ( /\ call.outcome # "Skipped"
            /\ call.result # SkipMessage )

(* Reached: integration_test run on the artifact validate returned. *)
C10_Witness ==
    /\ call.stage = "integration_test"
    /\ producer = "validate"
    /\ handoff # <<>>
    /\ call.args.validation_context = handoff
    /\ call.outcome = "Completed"
    /\ Len(call.execs) = 2

-----------------------------------------------------------------------------
(* C2: deploy, whatever its parameters, completes and emits one file named *)
(* deployment-context.json, a JSON object holding timestamp, endpoint,     *)
(* releaseName, namespace and imageReference.                              *)
C2_DeployEmitsContext ==
    call.stage = "deploy"
    => ( /\ call.outcome = "Completed"
         /\ Len(call.ret) = 1
         /\ call.ret[1].name = "deployment-context.json"
         /\ IsObjectFile(call.ret)
         /\ \A key \in {"timestamp", "endpoint", "releaseName", "namespace",
                        "imageReference"} : HasField(call.ret, key) )

-----------------------------------------------------------------------------
(* C4: with release_candidate true, the imageReference and chartReference  *)
(* deliver writes are those it writes with release_candidate false for the *)
(* same repositories, with "-rc" appended.                                 *)
C4_ReleaseCandidateSuffix ==
    ( /\ call.stage = "deliver"
      /\ call.args.release_candidate
      /\ call.ret # <<>> )
    => LET plain == deliver(call.args.container_repository,
                            call.args.helm_repository,
                            call.args.build_artifact, FALSE, call.args.clock).ret
       IN  \A key \in {"imageReference", "chartReference"} :
             Field(call.ret, key) = Str(Field(plain, key)[2] \o "-rc")

-----------------------------------------------------------------------------
ErrorOnReading(f) == IF Parsed(f).ok THEN "AttributeError" ELSE "JSONDecodeError"

-----------------------------------------------------------------------------
(* Whether the validation context lets integration_test go on to its tests. *)
ValidationPasses(vc) ==
    vc = <<>> \/ (IsObjectFile(vc) /\ Field(vc, "status") = Str("healthy"))

RanTests ==
    /\ call.outcome = "Completed"
    /\ Len(call.execs) = 2
    /\ call.result = Stdout(call.execs[2])

SkippedOnlyOnFailedStatus ==
    call.outcome = "Skipped"
    => ( /\ call.stage = "integration_test"
         /\ call.result = SkipMessage
         /\ IsObjectFile(call.args.validation_context)
         /\ Field(call.args.validation_context, "status") # Str("healthy") )

(* C7, as claimed: only integration_test ends in Skipped, and only on a    *)
(* validation context whose status is not "healthy"; with no validation    *)
(* context, or a healthy one, it runs its test containers and returns      *)
(* their output.                                                           *)
C7_SkippedOnlyOnStatus ==
    /\ SkippedOnlyOnFailedStatus
    /\ ( /\ call.stage = "integration_test"
         /\ ValidationPasses(call.args.validation_context) )
       => RanTests

(* C7, amended: the same, the tests being run when moreover the deployment *)
(* context is absent or a JSON object (otherwise the call fails).          *)
C7_SkippedOnlyOnStatus_Amended ==
    /\ SkippedOnlyOnFailedStatus
    /\ ( /\ call.stage = "integration_test"
         /\ ValidationPasses(call.args.validation_context)
         /\ AbsentOrObject(call.args.deployment_context) )
       => RanTests

(* Reached: a healthy validation context and a deployment context that is *)
(* an object; the tests ran against its endpoint.                         *)
C7_Witness ==
    /\ call.stage = "integration_test"
    /\ IsObjectFile(call.args.validation_context)
    /\ Field(call.args.validation_context, "status") = Str("healthy")
    /\ IsObjectFile(call.args.deployment_context)
    /\ call.outcome = "Completed"
    /\ call.execs[1].args[2] = "Running integration tests against http://svc:8080"

-----------------------------------------------------------------------------
(* C9, as claimed: integration_test given a validation context whose       *)
(* status is not "healthy" skips and raises no error, whatever the         *)
(* deployment context is, malformed ones included.                         *)
C9_SkipWhateverElse ==
    ( /\ call.stage = "integration_test"
      /\ IsObjectFile(call.args.validation_context)
      /\ Field(call.args.validation_context, "status") # Str("healthy") )
    => ( call.outcome = "Skipped" /\ call.error = "" )

(* C9, amended: it skips and raises no error for every deployment context *)
(* that is absent or a JSON object.                                       *)
C9_SkipNotFailure ==
    ( /\ call.stage = "integration_test"
      /\ IsObjectFile(call.args.validation_context)
      /\ Field(call.args.validation_context, "status") # Str("healthy")
      /\ AbsentOrObject(call.args.deployment_context) )
    => ( call.outcome = "Skipped" /\ call.error = "" )

(* Reached: status "unhealthy" and no deployment context; skipped. *)
C9_Witness ==
    /\ call.stage = "integration_test"
    /\ IsObjectFile(call.args.validation_context)
    /\ Field(call.args.validation_context, "status") = Str("unhealthy")
    /\ call.args.deployment_context = <<>>
    /\ call.outcome = "Skipped"
    /\ call.error = ""

====
